---- MODULE Spec2Model ----
(***************************************************************************)
(* Model of the civic issue backend: the analyzer (ai_service.py) and the  *)
(* HTTP handlers of main.py that create and mutate documents of the        *)
(* "issues" collection.                                                    *)
(*                                                                         *)
(* Python values are pairs <<type, repr>> so that a str, None, a Firestore *)
(* sentinel and a resolved timestamp are all distinct and comparable.      *)
(* Dicts are functions from key strings to such values.                    *)
(*                                                                         *)
(* Every handler is an `async def` whose body only makes blocking calls,   *)
(* so a handler runs to completion on the event loop before the next one   *)
(* starts: one action per handler, in any order.  The external services    *)
(* (Firestore, Cloudinary) are reachable; the language model may fail or   *)
(* return arbitrary text.                                                  *)
(***************************************************************************)
EXTENDS Integers, Sequences, FiniteSets, TLC

VARIABLES issues, ai_analysis, now, last

vars == <<issues, ai_analysis, now, last>>

\* ------------------------------------------------------------------ bounds
\* Number of handler calls explored (also the server clock's range).
MaxCalls == 3
\* Longest model response, in tokens.
MaxTextLen == 4

\* ------------------------------------------------------------ Python values
Str(s) == <<"str", s>>
None == <<"NoneType", "None">>
Float(s) == <<"float", s>>
List(s) == <<"list", s>>
\* The server clock read at call n, as stored by Firestore for a sentinel.
Timestamp(n) == <<"timestamp", ToString(n)>>
\* datetime.utcnow().isoformat(): a str made from the clock.
isoformat(n) == Str(ToString(n))

EmptyDict == [k \in {} |-> None]

\* dict.get(key): the value, or None when the key is absent.
Get(d, k) == IF k \in DOMAIN d THEN d[k] ELSE None

\* {**a, **b} and Firestore's field-wise update: b's keys win.
Merge(a, b) == [k \in (DOMAIN a) \cup (DOMAIN b) |-> IF k \in DOMAIN b THEN b[k] ELSE a[k]]

\* ------------------------------------------------------------------ inputs
Descriptions == {"pothole on Main St", "streetlight out"}
Images == {"none", "file"}
StatusInputs == {"Pending", "Resolved", "resolved", "RESOLVED", "Closed"}
NotesInputs == {"", "fixed"}
OfficerIds == {"off-1", "off-2"}
OfficerNames == {"J. Doe"}
IssueIds == 1..MaxCalls

\* A model response is a sequence of tokens: braces, prose, and the two JSON
\* object bodies the model may write between braces.
Tokens == {"{", "}", "prose", "full", "partial"}
Bodies == {"full", "partial"}

RECURSIVE SeqsUpTo(_, _)
SeqsUpTo(S, n) ==
    IF n = 0 THEN {<<>>}
    ELSE LET shorter == SeqsUpTo(S, n - 1)
         IN  shorter \cup {Append(s, x) : s \in {t \in shorter : Len(t) = n - 1}, x \in S}

Texts == SeqsUpTo(Tokens, MaxTextLen)

\* model.generate_content(prompt): raises (ok = FALSE) or returns text.
ModelOutcomes == {[ok |-> FALSE, text |-> <<>>]} \cup {[ok |-> TRUE, text |-> t] : t \in Texts}

\* ------------------------------------------------------- ai_service.py
\* The outcome of a Python call: a returned value with its type, or an
\* exception raised past the callee's boundary.
Return(type, v) == [raised |-> FALSE, type |-> type, value |-> v]
Raise(exc) == [raised |-> TRUE, type |-> exc, value |-> EmptyDict]
NoCall == [raised |-> FALSE, type |-> "none", value |-> EmptyDict]

\* The JSON objects the model may write between braces.
json_object(body) ==
    IF body = "full"
    THEN [category |-> Str("Roads"), severity |-> Str("High"),
          department |-> Str("Public Works"), actions |-> List("['Fill pothole']")]
    ELSE [category |-> Str("Roads")]

\* json.loads on a str: an object when the text is exactly one brace pair
\* around nothing or around one object body, JSONDecodeError otherwise.
json_loads(s) ==
    IF s = <<"{", "}">> THEN Return("dict", EmptyDict)
    ELSE IF Len(s) = 3 /\ s[1] = "{" /\ s[2] \in Bodies /\ s[3] = "}"
         THEN Return("dict", json_object(s[2]))
         ELSE Raise("JSONDecodeError")

\* re.search(r"\{.*\}", text, re.DOTALL): leftmost "{", then greedily up to
\* the last "}" after it.
Min(S) == CHOOSE x \in S : \A y \in S : x <= y
Max(S) == CHOOSE x \in S : \A y \in S : x >= y

re_search(text) ==
    LET opens == {i \in 1..Len(text) : text[i] = "{"}
        closes == {i \in 1..Len(text) : text[i] = "}"}
    IN  IF opens # {} /\ closes # {} /\ Max(closes) > Min(opens)
        THEN [found |-> TRUE, group |-> SubSeq(text, Min(opens), Max(closes))]
        ELSE [found |-> FALSE, group |-> <<>>]

\* The record returned when the model call raises.
fallback ==
    [category |-> Str("Uncategorized"), severity |-> Str("Low"),
     department |-> Str("General"), actions |-> List("['Manual review required']"),
     error |-> Str("str(e)")]

analyze_issue(m) ==
    IF ~m.ok
    THEN Return("dict", fallback)
    ELSE LET json_match == re_search(m.text)
         IN  IF ~json_match.found
             THEN Return("dict", [error |-> Str("Invalid AI response format")])
             ELSE json_loads(json_match.group)

\* What a caller of analyze_issue can observe, over every model outcome:
\* whether the model call succeeded, and analyze_issue's own outcome.
Analyses == {[model_ok |-> m.ok, ai |-> analyze_issue(m)] : m \in ModelOutcomes}

\* ---------------------------------------------------------------- main.py
\* json.loads applied to any Python object: TypeError unless it is a str.
json_loads_py(obj) ==
    IF obj.type # "str" THEN Raise("TypeError") ELSE json_loads(obj.value)

default_ai_json ==
    [ai_summary |-> None, severity |-> Str("Pending"), risk_level |-> None,
     priority_score |-> None, category |-> Str("Other"),
     department |-> Str("Municipality"), suggested_actions |-> List("[]")]

\* The body of report_issue's try block, given analyze_issue's outcome.
try_parse(ai_text) ==
    IF ai_text.raised THEN ai_text ELSE json_loads_py(ai_text)

\* except json.JSONDecodeError in place of except Exception.
ai_json_narrow(ai_text) ==
    LET r == try_parse(ai_text)
    IN  IF r.raised /\ r.type = "JSONDecodeError" THEN Return("dict", default_ai_json) ELSE r

\* try: ... except Exception: the defaults.
ai_json(ai_text) ==
    LET r == try_parse(ai_text)
    IN  IF r.raised THEN Return("dict", default_ai_json) ELSE r

secure_url == Str("https://res.cloudinary.com/upload.jpg")

issue_data(description, latitude, longitude, image_url, aj, n) ==
    [title |-> Str("Citizen Issue Report"),
     description |-> Str(description),
     latitude |-> Float(latitude),
     longitude |-> Float(longitude),
     image_url |-> image_url,
     status |-> Str("Pending"),
     created_at |-> isoformat(n),
     ai_summary |-> Get(aj, "ai_summary"),
     severity |-> Get(aj, "severity"),
     risk_level |-> Get(aj, "risk_level"),
     priority_score |-> Get(aj, "priority_score"),
     category |-> Get(aj, "category"),
     department |-> Get(aj, "department"),
     suggested_actions |-> Get(aj, "suggested_actions")]

\* firestore.SERVER_TIMESTAMP: a sentinel object, not a str.
SERVER_TIMESTAMP == <<"Sentinel", "Value used to set a document field to the server timestamp.">>

\* str.lower() on the status strings the requests carry.
lower(s) ==
    CASE s = "Pending" -> "pending"
      [] s = "Resolved" -> "resolved"
      [] s = "resolved" -> "resolved"
      [] s = "RESOLVED" -> "resolved"
      [] s = "Closed" -> "closed"

\* resolved_at keyed on the exact spelling "resolved" (no lower()).
update_data_exact(status, notes, proof_image) ==
    LET base == [status |-> Str(status), notes |-> Str(notes), updated_at |-> SERVER_TIMESTAMP]
        withImage == IF proof_image = "file"
                     THEN Merge(base, [resolved_image |-> secure_url])
                     ELSE base
    IN  IF status = "resolved"
        THEN Merge(withImage, [resolved_at |-> SERVER_TIMESTAMP])
        ELSE withImage

\* The patch update_status builds.
update_data(status, notes, proof_image) ==
    LET base == [status |-> Str(status), notes |-> Str(notes), updated_at |-> SERVER_TIMESTAMP]
        withImage == IF proof_image = "file"
                     THEN Merge(base, [resolved_image |-> secure_url])
                     ELSE base
    IN  IF lower(status) = "resolved"
        THEN Merge(withImage, [resolved_at |-> SERVER_TIMESTAMP])
        ELSE withImage

\* The view without the "updated_at" override: {**update_data, "resolved_at": ...}.
update_view_raw(patch) ==
    Merge(patch,
          [resolved_at |-> IF "resolved_at" \in DOMAIN patch
                           THEN Str("SERVER_TIMESTAMP") ELSE None])

\* The "update" object of update_status's response.
update_view(patch) ==
    Merge(patch,
          [updated_at |-> Str("SERVER_TIMESTAMP"),
           resolved_at |-> IF "resolved_at" \in DOMAIN patch
                           THEN Str("SERVER_TIMESTAMP") ELSE None])

\* The assignment patch without its timestamp.
assign_data_no_timestamp(officer_id, officer_name) ==
    [assigned_officer_id |-> Str(officer_id),
     assigned_officer_name |-> Str(officer_name),
     status |-> Str("In-Progress")]

\* The patch assign_officer writes.
assign_data(officer_id, officer_name) ==
    [assigned_officer_id |-> Str(officer_id),
     assigned_officer_name |-> Str(officer_name),
     status |-> Str("In-Progress"),
     assigned_at |-> SERVER_TIMESTAMP]

\* DocumentReference.update: field-wise merge, each sentinel replaced by the
\* server's clock.
firestore_update(doc, patch, n) ==
    Merge(doc, [k \in DOMAIN patch |->
                  IF patch[k] = SERVER_TIMESTAMP THEN Timestamp(n) ELSE patch[k]])

exists(issue_id) == issue_id \in 1..Len(issues)

NoReq == [issue_id |-> 0]
NotFound == [status_code |-> 200, error |-> "Issue not found"]
InternalServerError == [status_code |-> 500]

\* ----------------------------------------------------------------- actions
Init ==
    /\ issues = <<>>
    /\ ai_analysis = <<>>
    /\ now = 0
    /\ last = [op |-> "none", req |-> NoReq, model_ok |-> TRUE, ai |-> NoCall,
               patch |-> EmptyDict, resp |-> [status_code |-> 0]]

report_issue ==
    \E description \in Descriptions, image \in Images, a \in Analyses :
        /\ now < MaxCalls
        /\ LET image_url == IF image = "file" THEN secure_url ELSE None
               ai_text == a.ai
               aj == ai_json(ai_text)
               id == Len(issues) + 1
           IN  IF aj.raised
               THEN /\ issues' = issues
                    /\ last' = [op |-> "report_issue", req |-> NoReq, model_ok |-> a.model_ok,
                                ai |-> ai_text, patch |-> EmptyDict,
                                resp |-> InternalServerError]
               ELSE /\ issues' = Append(issues,
                                        issue_data(description, "12.97", "77.59",
                                                   image_url, aj.value, now))
                    /\ last' = [op |-> "report_issue", req |-> NoReq, model_ok |-> a.model_ok,
                                ai |-> ai_text, patch |-> EmptyDict,
                                resp |-> [status_code |-> 200, success |-> TRUE,
                                          issue_id |-> id]]
        /\ now' = now + 1
        /\ UNCHANGED ai_analysis

resolve_with_ai ==
    \E description \in Descriptions, a \in Analyses :
        /\ now < MaxCalls
        /\ LET ai_text == a.ai
               aj == try_parse(ai_text)
           IN  IF aj.raised
               THEN /\ ai_analysis' = ai_analysis
                    /\ last' = [op |-> "resolve_with_ai", req |-> NoReq, model_ok |-> a.model_ok,
                                ai |-> ai_text, patch |-> EmptyDict,
                                resp |-> InternalServerError]
               ELSE /\ ai_analysis' = Append(ai_analysis,
                                             Merge([description |-> Str(description)], aj.value))
                    /\ last' = [op |-> "resolve_with_ai", req |-> NoReq, model_ok |-> a.model_ok,
                                ai |-> ai_text, patch |-> EmptyDict,
                                resp |-> [status_code |-> 200,
                                          document_id |-> Len(ai_analysis) + 1]]
        /\ now' = now + 1
        /\ UNCHANGED issues

update_status ==
    \E issue_id \in IssueIds, status \in StatusInputs, notes \in NotesInputs,
       proof_image \in Images :
        /\ now < MaxCalls
        /\ LET req == [issue_id |-> issue_id, status |-> status, notes |-> notes,
                       proof_image |-> proof_image]
               patch == update_data(status, notes, proof_image)
           IN  IF ~exists(issue_id)
               THEN /\ issues' = issues
                    /\ last' = [op |-> "update_status", req |-> req, model_ok |-> TRUE,
                                ai |-> NoCall, patch |-> EmptyDict, resp |-> NotFound]
               ELSE /\ issues' = [issues EXCEPT
                                    ![issue_id] = firestore_update(@, patch, now)]
                    /\ last' = [op |-> "update_status", req |-> req, model_ok |-> TRUE,
                                ai |-> NoCall, patch |-> patch,
                                resp |-> [status_code |-> 200, issue_id |-> issue_id,
                                          update |-> update_view(patch)]]
        /\ now' = now + 1
        /\ UNCHANGED ai_analysis

assign_officer ==
    \E issue_id \in IssueIds, officer_id \in OfficerIds, officer_name \in OfficerNames :
        /\ now < MaxCalls
        /\ LET req == [issue_id |-> issue_id, officer_id |-> officer_id,
                       officer_name |-> officer_name]
               patch == assign_data(officer_id, officer_name)
           IN  IF ~exists(issue_id)
               THEN /\ issues' = issues
                    /\ last' = [op |-> "assign_officer", req |-> req, model_ok |-> TRUE,
                                ai |-> NoCall, patch |-> EmptyDict, resp |-> NotFound]
               ELSE /\ issues' = [issues EXCEPT
                                    ![issue_id] = firestore_update(@, patch, now)]
                    /\ last' = [op |-> "assign_officer", req |-> req, model_ok |-> TRUE,
                                ai |-> NoCall, patch |-> patch,
                                resp |-> [status_code |-> 200, issue_id |-> issue_id,
                                          assigned_to |-> Str(officer_name)]]
        /\ now' = now + 1
        /\ UNCHANGED ai_analysis

Next == report_issue \/ resolve_with_ai \/ update_status \/ assign_officer

Spec == Init /\ [][Next]_vars

\* ------------------------------------------------------------------ claims
Has(d, k) == k \in DOMAIN d /\ d[k] # None
Call(op) == now' # now /\ last'.op = op
Applied(op) == last.op = op /\ last.resp.status_code = 200 /\ "error" \notin DOMAIN last.resp
AnalysisFields == {"category", "severity", "department", "actions"}
StatusEnum == {Str("Pending"), Str("In-Progress"), Str("Resolved")}
ResolvedSpellings == {"Resolved", "resolved", "RESOLVED"}
Marker == Str("SERVER_TIMESTAMP")

\* C1: whatever analyze_issue did (returned the fallback, the format error
\* or a parsed object, or raised on an unparsable span), a report_issue call
\* answers with success and the id of exactly one new issue, appended with
\* status "Pending"; the issues already stored are untouched.
C1_ReportSurvivesAnalyzer ==
    [][Call("report_issue") =>
          /\ last'.resp.status_code = 200
          /\ last'.resp.success
          /\ Len(issues') = Len(issues) + 1
          /\ SubSeq(issues', 1, Len(issues)) = issues
          /\ last'.resp.issue_id = Len(issues')
          /\ issues'[Len(issues')].status = Str("Pending")]_vars

\* C1 witness: analyze_issue raised inside report_issue and the issue was
\* stored all the same.
C1_Witness ==
    /\ Applied("report_issue")
    /\ last.ai.raised
    /\ last.resp.issue_id = Len(issues)
    /\ issues[Len(issues)].status = Str("Pending")

\* C2: when analyze_issue returned the model's object with category,
\* severity, department and actions, the issue stored by report_issue
\* carries that category, severity and department.
C2_AnalysisMerged ==
    (/\ Applied("report_issue")
     /\ last.model_ok
     /\ ~last.ai.raised
     /\ AnalysisFields \subseteq DOMAIN last.ai.value)
    => LET doc == issues[last.resp.issue_id]
       IN  /\ doc.category = last.ai.value.category
           /\ doc.severity = last.ai.value.severity
           /\ doc.department = last.ai.value.department

\* C3: when the model call failed during report_issue, the stored issue has
\* severity "Low" and category "Uncategorized".
C3_FallbackStored ==
    (Applied("report_issue") /\ ~last.model_ok)
    => LET doc == issues[last.resp.issue_id]
       IN  /\ doc.severity = Str("Low")
           /\ doc.category = Str("Uncategorized")

\* C4: analyze_issue returns a value to its caller for every model outcome;
\* no exception crosses its boundary.
C4_AnalyzeTotal ==
    last.op \in {"report_issue", "resolve_with_ai"} => ~last.ai.raised

\* C5: a stored issue has resolved_at only while its status is "Resolved".
C5_ResolvedAtOnlyIfResolved ==
    \A i \in 1..Len(issues) :
        Has(issues[i], "resolved_at") => issues[i].status = Str("Resolved")

\* C6: once an issue carries assigned_at (resolved_at), no later
\* assign-officer (update-status) call writes that field again.
C6_WriteOnce ==
    [][\A i \in 1..Len(issues) :
          (/\ Call("update_status") \/ Call("assign_officer")
           /\ last'.req.issue_id = i)
          => /\ Has(issues[i], "resolved_at") => "resolved_at" \notin DOMAIN last'.patch
             /\ Has(issues[i], "assigned_at") => "assigned_at" \notin DOMAIN last'.patch]_vars

\* C7: every stored issue's status is "Pending", "In-Progress" or "Resolved".
C7_StatusEnum ==
    \A i \in 1..Len(issues) : issues[i].status \in StatusEnum

\* C8: a stored issue has assigned_at exactly when it has assigned_officer_id.
C8_AssignedAtIffOfficer ==
    \A i \in 1..Len(issues) :
        Has(issues[i], "assigned_at") <=> Has(issues[i], "assigned_officer_id")

\* C8 witness: an assigned issue that a later update-status call has patched.
C8_Witness ==
    /\ Applied("update_status")
    /\ Has(issues[last.req.issue_id], "assigned_at")
    /\ Has(issues[last.req.issue_id], "assigned_officer_id")

\* C9: for an existing issue the patch of update_status has the key
\* resolved_at exactly when the requested status is a spelling of "resolved"
\* (otherwise the key is absent, not null), and always has status, notes and
\* updated_at, as requested and as the server-timestamp sentinel.
C9_PatchShape ==
    Applied("update_status")
    => /\ ("resolved_at" \in DOMAIN last.patch) <=> (last.req.status \in ResolvedSpellings)
       /\ "resolved_at" \in DOMAIN last.patch => last.patch.resolved_at = SERVER_TIMESTAMP
       /\ {"status", "notes", "updated_at"} \subseteq DOMAIN last.patch
       /\ last.patch.status = Str(last.req.status)
       /\ last.patch.notes = Str(last.req.notes)
       /\ last.patch.updated_at = SERVER_TIMESTAMP

\* C9 witness: an update to "RESOLVED" whose patch has resolved_at.
C9_Witness ==
    /\ Applied("update_status")
    /\ last.req.status = "RESOLVED"
    /\ "resolved_at" \in DOMAIN last.patch

\* C10: the update view of update_status's response holds the sentinel in no
\* field, and holds the marker "SERVER_TIMESTAMP" in a timestamp field
\* exactly when the patch wrote that field: in updated_at always, in
\* resolved_at only when the patch has resolved_at.
C10_ViewMarkers ==
    Applied("update_status")
    => LET view == last.resp.update
       IN  /\ \A k \in DOMAIN view : view[k] # SERVER_TIMESTAMP
           /\ \A k \in {"updated_at", "resolved_at"} :
                  (Get(view, k) = Marker)
                  <=> (k \in DOMAIN last.patch /\ last.patch[k] = SERVER_TIMESTAMP)
           /\ DOMAIN last.patch \subseteq DOMAIN view

\* C10 witness: a response to a non-resolving update: updated_at carries the
\* marker, resolved_at does not.
C10_Witness ==
    /\ Applied("update_status")
    /\ last.req.status = "Pending"
    /\ last.resp.update.updated_at = Marker
    /\ Get(last.resp.update, "resolved_at") # Marker

====
